---- MODULE Spec2Model ----
(***************************************************************************)
(* Verification model of the textarea-autocomplete language-model core:    *)
(* AdvancedTokenizer (tokenizer.ts), NGramStore (store.ts),                *)
(* StupidBackoffModel (model.ts) and the exclusion PPMModel (google.ts).   *)
(*                                                                         *)
(* Texts are sequences of one-character strings.  Scores are JavaScript    *)
(* doubles in the program; here they are exact rationals [num, den] in     *)
(* lowest terms (within the bounds of the model two scores that differ as  *)
(* rationals differ by far more than one ulp).                             *)
(***************************************************************************)
EXTENDS Integers, Sequences, FiniteSets, TLC

\* n, config: the order of the StupidBackoffModel and the TokenizerConfig
\* wordToId, idToWord: the vocabulary of the AdvancedTokenizer
\* counts, contextMap, totalTokens: the fields of the NGramStore
\* last: the last call made on the model, with what it returned
\* nTrain: number of train calls made so far
\* tokOut: result of the last direct tokenize call
\* used: amount of input given to the calls made so far
\* maxOrder, root, vocabulary: the fields of the exclusion PPMModel; root is
\*   the trie, a map from the path of a ContextNode to the node
\* ppmLast: the last call made on the PPMModel
\* ppmOrder: the order field of the PPM class (ppm.ts)
VARIABLES n, config, wordToId, idToWord, counts, contextMap, totalTokens,
          last, nTrain, tokOut, used,
          maxOrder, root, vocabulary, ppmLast, ppmOrder

vars == <<n, config, wordToId, idToWord, counts, contextMap, totalTokens,
          last, nTrain, tokOut, used,
          maxOrder, root, vocabulary, ppmLast, ppmOrder>>

ppmVars == <<maxOrder, root, vocabulary, ppmLast>>
sbmVars == <<n, counts, contextMap, totalTokens, last, nTrain>>

storeVars == <<counts, contextMap, totalTokens>>
vocabVars == <<wordToId, idToWord>>

\* ------------------------------------------------------------------------
\* Bounds
\* ------------------------------------------------------------------------
\* A call with a text (a token array) of length k takes k + 1 units of
\* input; the calls of one behaviour take at most this much in total.
MaxInput == 6
MaxTokInput == 4
MaxPPMInput == 4
MaxHistLen == 2

Cost(input) == Len(input) + 1

\* ------------------------------------------------------------------------
\* Generic helpers
\* ------------------------------------------------------------------------
Min(a, b) == IF a <= b THEN a ELSE b
Max(a, b) == IF a >= b THEN a ELSE b

SeqsUpTo(S, k) == UNION {[1..m -> S] : m \in 0..k}

\* Array.prototype.slice(start, end) on a sequence (indices are 0-based in
\* the program, 1-based here); negative arguments count from the end.
JSSlice(s, start, end) ==
    LET len == Len(s)
        from == IF start < 0 THEN Max(len + start, 0) ELSE Min(start, len)
        to == IF end < 0 THEN Max(len + end, 0) ELSE Min(end, len)
    IN IF to <= from THEN <<>> ELSE SubSeq(s, from + 1, to)

\* slice(start) with the end omitted
JSSliceFrom(s, start) == JSSlice(s, start, Len(s))

\* ------------------------------------------------------------------------
\* Characters
\* ------------------------------------------------------------------------
\* "A" is an upper-case letter; "yo" stands for the one character U+0451
\* that normalizeYo folds onto U+0435, written "ye".
UpperLetters == {"A"}
LowerLetters == {"a", "yo", "ye"}
Letters == UpperLetters \cup LowerLetters
Digits == {"1"}
Hyphen == "-"
Punct == {"."}
Space == " "
AllChars == Letters \cup Digits \cup {Hyphen} \cup Punct \cup {Space}
ModelChars == {"a", "1", "."}

\* ------------------------------------------------------------------------
\* AdvancedTokenizer
\* ------------------------------------------------------------------------
UNK == <<"<", "U", "N", "K", ">">>
BOS == <<"<", "S", ">">>
EOS == <<"<", "/", "S", ">">>

DefaultConfig == [normalizeYo |-> TRUE, minWordLength |-> 1]
Configs == [normalizeYo : BOOLEAN, minWordLength : {1, 2}]

EmptyTok == [wordToId |-> <<>>, idToWord |-> <<>>]

\* registerToken returning the array length after the push instead of id
registerTokenLengthAfterPush(tok, word) ==
    IF word \in DOMAIN tok.wordToId
    THEN [id |-> tok.wordToId[word], tok |-> tok]
    ELSE LET id == Len(tok.idToWord)
         IN [id |-> id + 1,
             tok |-> [wordToId |-> [w \in DOMAIN tok.wordToId \cup {word} |->
                                      IF w = word THEN id ELSE tok.wordToId[w]],
                      idToWord |-> Append(tok.idToWord, word)]]

\* registerToken without the test for a known word: every call takes the
\* next free index
registerTokenAlways(tok, word) ==
    LET id == Len(tok.idToWord)
    IN [id |-> id,
        tok |-> [wordToId |-> [w \in DOMAIN tok.wordToId \cup {word} |->
                                 IF w = word THEN id ELSE tok.wordToId[w]],
                 idToWord |-> Append(tok.idToWord, word)]]

\* registerToken: the id of a known word, else the next free index
registerToken(tok, word) ==
    IF word \in DOMAIN tok.wordToId
    THEN [id |-> tok.wordToId[word], tok |-> tok]
    ELSE LET id == Len(tok.idToWord)
         IN [id |-> id,
             tok |-> [wordToId |-> [w \in DOMAIN tok.wordToId \cup {word} |->
                                      IF w = word THEN id ELSE tok.wordToId[w]],
                      idToWord |-> Append(tok.idToWord, word)]]

\* constructor: the three sentinels are registered first and their ids kept
UNK_ID == registerToken(EmptyTok, UNK).id
BOS_ID == registerToken(registerToken(EmptyTok, UNK).tok, BOS).id
EOS_ID == registerToken(registerToken(registerToken(EmptyTok, UNK).tok, BOS).tok, EOS).id

NewTokenizer ==
    LET t1 == registerToken(EmptyTok, UNK).tok
        t2 == registerToken(t1, BOS).tok
    IN registerToken(t2, EOS).tok

getId(tok, word) ==
    IF word \in DOMAIN tok.wordToId THEN tok.wordToId[word] ELSE UNK_ID

getWord(tok, id) ==
    IF id >= 0 /\ id < Len(tok.idToWord) THEN tok.idToWord[id + 1] ELSE UNK

getVocabSize(tok) == Len(tok.idToWord)

toLowerCase(c) == IF c = "A" THEN "a" ELSE c

\* preprocessText: NFC (every character of AllChars is already composed),
\* lower-casing, then the optional fold of "yo" onto "ye"
preprocessText(cfg, text) ==
    [i \in 1..Len(text) |->
        LET c == toLowerCase(text[i])
        IN IF cfg.normalizeYo /\ c = "yo" THEN "ye" ELSE c]

\* End (exclusive, 1-based) of the maximal run of characters of S from i
RECURSIVE RunEnd(_, _, _)
RunEnd(s, i, S) ==
    IF i <= Len(s) /\ s[i] \in S THEN RunEnd(s, i + 1, S) ELSE i

\* tokenRegex matched at position i: [kind, end] with end the first position
\* after the match, or kind "none".  Alternatives in the order of the regex:
\* letter [letter|-]* letter (greedy, backtracking to the last letter),
\* letter+, digit+, punctuation+.
MatchAt(s, i) ==
    IF s[i] \in Letters
    THEN LET e == RunEnd(s, i + 1, Letters \cup {Hyphen})
             lastL == {j \in (i + 1)..(e - 1) : s[j] \in Letters}
         IN IF lastL # {}
            THEN [kind |-> "word", end |-> (CHOOSE j \in lastL : \A k \in lastL : k <= j) + 1]
            ELSE [kind |-> "word", end |-> RunEnd(s, i, Letters)]
    ELSE IF s[i] \in Digits
    THEN [kind |-> "word", end |-> RunEnd(s, i, Digits)]
    ELSE IF s[i] \in Punct
    THEN [kind |-> "punct", end |-> RunEnd(s, i, Punct)]
    ELSE [kind |-> "none", end |-> i + 1]

\* the loop of tokenize closing a sentence at every punctuation match, also
\* at the start of a sentence
RECURSIVE TokenizeLoopEveryPunct(_, _, _, _, _, _)
TokenizeLoopEveryPunct(cfg, s, i, result, tok, isSentenceStart) ==
    IF i > Len(s) THEN [tokens |-> result, tok |-> tok]
    ELSE LET m == MatchAt(s, i)
         IN IF m.kind = "word"
            THEN LET word == SubSeq(s, i, m.end - 1)
                 IN IF Len(word) < cfg.minWordLength
                    THEN TokenizeLoopEveryPunct(cfg, s, m.end, result, tok, isSentenceStart)
                    ELSE LET r == registerToken(tok, word)
                         IN TokenizeLoopEveryPunct(cfg, s, m.end, Append(result, r.id),
                                                   r.tok, FALSE)
            ELSE IF m.kind = "punct"
            THEN TokenizeLoopEveryPunct(cfg, s, m.end, result \o <<EOS_ID, BOS_ID>>,
                                        tok, TRUE)
            ELSE TokenizeLoopEveryPunct(cfg, s, m.end, result, tok, isSentenceStart)

\* The while loop over tokenRegex.exec of tokenize
RECURSIVE TokenizeLoop(_, _, _, _, _, _)
TokenizeLoop(cfg, s, i, result, tok, isSentenceStart) ==
    IF i > Len(s) THEN [tokens |-> result, tok |-> tok]
    ELSE LET m == MatchAt(s, i)
         IN IF m.kind = "word"
            THEN LET word == SubSeq(s, i, m.end - 1)
                 IN IF Len(word) < cfg.minWordLength
                    THEN TokenizeLoop(cfg, s, m.end, result, tok, isSentenceStart)
                    ELSE LET r == registerToken(tok, word)
                         IN TokenizeLoop(cfg, s, m.end, Append(result, r.id), r.tok, FALSE)
            ELSE IF m.kind = "punct" /\ ~isSentenceStart
            THEN TokenizeLoop(cfg, s, m.end, result \o <<EOS_ID, BOS_ID>>, tok, TRUE)
            ELSE TokenizeLoop(cfg, s, m.end, result, tok, isSentenceStart)

\* CloseStream without the removal of a dangling BOS
CloseStreamNoPop(result) ==
    IF result[Len(result)] = BOS_ID THEN result
    ELSE IF result[Len(result)] # EOS_ID THEN Append(result, EOS_ID)
    ELSE result

\* Closing of the stream after the loop
CloseStream(result) ==
    IF result[Len(result)] = BOS_ID THEN SubSeq(result, 1, Len(result) - 1)
    ELSE IF result[Len(result)] # EOS_ID THEN Append(result, EOS_ID)
    ELSE result

tokenize(cfg, tok, text) ==
    LET r == TokenizeLoop(cfg, preprocessText(cfg, text), 1, <<BOS_ID>>, tok, TRUE)
    IN [tokens |-> CloseStream(r.tokens), tok |-> r.tok]

\* ------------------------------------------------------------------------
\* NGramStore
\* ------------------------------------------------------------------------
\* ids.join(","): the ids separated by a comma, written here as -1
Comma == -1

toKey(ids) ==
    [i \in 1..(IF Len(ids) = 0 THEN 0 ELSE 2 * Len(ids) - 1) |->
        IF i % 2 = 1 THEN ids[(i + 1) \div 2] ELSE Comma]

EmptyStore == [counts |-> <<>>, contextMap |-> <<>>, totalTokens |-> 0]

MapGet(m, key, default) == IF key \in DOMAIN m THEN m[key] ELSE default

MapSet(m, key, val) ==
    [k \in DOMAIN m \cup {key} |-> IF k = key THEN val ELSE m[k]]

\* Set.prototype.add on an insertion-ordered set
SetAdd(s, x) == IF \E i \in 1..Len(s) : s[i] = x THEN s ELSE Append(s, x)

SeqToSet(s) == {s[i] : i \in 1..Len(s)}

\* increment overwriting the count with 1 instead of adding to it
incrementNoAdd(st, ngram) ==
    LET key == toKey(ngram)
        c1 == MapSet(st.counts, key, 1)
        t1 == IF Len(ngram) = 1 THEN st.totalTokens + 1 ELSE st.totalTokens
        m1 == IF Len(ngram) > 1
              THEN LET contextKey == toKey(JSSlice(ngram, 0, -1))
                       candidate == ngram[Len(ngram)]
                   IN MapSet(st.contextMap, contextKey,
                             SetAdd(MapGet(st.contextMap, contextKey, <<>>), candidate))
              ELSE st.contextMap
    IN [counts |-> c1, contextMap |-> m1, totalTokens |-> t1]

\* increment that registers a candidate only when the context is new
incrementFirstCandidateOnly(st, ngram) ==
    LET key == toKey(ngram)
        c1 == MapSet(st.counts, key, MapGet(st.counts, key, 0) + 1)
        t1 == IF Len(ngram) = 1 THEN st.totalTokens + 1 ELSE st.totalTokens
        m1 == IF Len(ngram) > 1
              THEN LET contextKey == toKey(JSSlice(ngram, 0, -1))
                       candidate == ngram[Len(ngram)]
                   IN IF contextKey \in DOMAIN st.contextMap THEN st.contextMap
                      ELSE MapSet(st.contextMap, contextKey, <<candidate>>)
              ELSE st.contextMap
    IN [counts |-> c1, contextMap |-> m1, totalTokens |-> t1]

\* increment that registers the last token as a candidate of its context for
\* every n-gram, unigrams included (their context is the empty one)
incrementUnigramCandidates(st, ngram) ==
    LET key == toKey(ngram)
        c1 == MapSet(st.counts, key, MapGet(st.counts, key, 0) + 1)
        t1 == IF Len(ngram) = 1 THEN st.totalTokens + 1 ELSE st.totalTokens
        m1 == LET contextKey == toKey(JSSlice(ngram, 0, -1))
                  candidate == ngram[Len(ngram)]
              IN MapSet(st.contextMap, contextKey,
                        SetAdd(MapGet(st.contextMap, contextKey, <<>>), candidate))
    IN [counts |-> c1, contextMap |-> m1, totalTokens |-> t1]

increment(st, ngram) ==
    LET key == toKey(ngram)
        c1 == MapSet(st.counts, key, MapGet(st.counts, key, 0) + 1)
        t1 == IF Len(ngram) = 1 THEN st.totalTokens + 1 ELSE st.totalTokens
        m1 == IF Len(ngram) > 1
              THEN LET contextKey == toKey(JSSlice(ngram, 0, -1))
                       candidate == ngram[Len(ngram)]
                   IN MapSet(st.contextMap, contextKey,
                             SetAdd(MapGet(st.contextMap, contextKey, <<>>), candidate))
              ELSE st.contextMap
    IN [counts |-> c1, contextMap |-> m1, totalTokens |-> t1]

getCount(st, ngram) == MapGet(st.counts, toKey(ngram), 0)

getTotalTokens(st) == st.totalTokens

\* the candidates in the insertion order of the stored Set
getCandidates(st, context) == MapGet(st.contextMap, toKey(context), <<>>)

\* ------------------------------------------------------------------------
\* StupidBackoffModel
\* ------------------------------------------------------------------------
\* the inner loop of train leaving out the n-grams that start at the first
\* token of the stream
RECURSIVE TrainAtAfterFirst(_, _, _, _, _)
TrainAtAfterFirst(order, st, tokens, i, k) ==
    IF st.totalTokens < 0 \/ k > order THEN st
    ELSE IF i - k < 0 THEN TrainAtAfterFirst(order, st, tokens, i, k + 1)
    ELSE TrainAtAfterFirst(order, increment(st, JSSlice(tokens, i - k + 1, i + 1)),
                           tokens, i, k + 1)

\* train, inner loop: for (k = 1..n) increment(tokens.slice(i-k+1, i+1)).
\* totalTokens is never negative: the first test only reads the store, so
\* that each increment is evaluated before the next one is entered.
RECURSIVE TrainAt(_, _, _, _, _)
TrainAt(order, st, tokens, i, k) ==
    IF st.totalTokens < 0 \/ k > order THEN st
    ELSE IF i - k + 1 < 0 THEN TrainAt(order, st, tokens, i, k + 1)
    ELSE TrainAt(order, increment(st, JSSlice(tokens, i - k + 1, i + 1)), tokens, i, k + 1)

\* train, outer loop: for (i = 0..len-1)
RECURSIVE TrainLoop(_, _, _, _)
TrainLoop(order, st, tokens, i) ==
    IF i >= Len(tokens) THEN st
    ELSE TrainLoop(order, TrainAt(order, st, tokens, i, 1), tokens, i + 1)

\* Scores: exact rationals in lowest terms
RECURSIVE GCD(_, _)
GCD(a, b) == IF b = 0 THEN a ELSE GCD(b, a % b)

Rat(a, b) == LET g == GCD(a, b) IN [num |-> a \div g, den |-> b \div g]
Zero == [num |-> 0, den |-> 1]
RatMul(x, y) == Rat(x.num * y.num, x.den * y.den)
RatLess(x, y) == x.num * y.den < y.num * x.den
RatLeq(x, y) == x.num * y.den <= y.num * x.den

\* ALPHA = 0.4
ALPHA == [num |-> 2, den |-> 5]

\* getScore backing off by dropping the newest token of the context
RECURSIVE getScoreDropNewest(_, _, _)
getScoreDropNewest(st, candidate, context) ==
    LET order == Len(context) + 1
        ngram == Append(context, candidate)
        countNgram == getCount(st, ngram)
    IN IF order = 1
       THEN LET total == getTotalTokens(st)
            IN IF total > 0 THEN Rat(countNgram, total) ELSE Zero
       ELSE IF countNgram > 0
       THEN LET countContext == getCount(st, context)
            IN IF countContext > 0 THEN Rat(countNgram, countContext) ELSE Zero
       ELSE RatMul(ALPHA, getScoreDropNewest(st, candidate, JSSlice(context, 0, -1)))

\* getScore without the backoff: 0 for an n-gram that was never seen
getScoreNoBackoff(st, candidate, context) ==
    LET order == Len(context) + 1
        ngram == Append(context, candidate)
        countNgram == getCount(st, ngram)
    IN IF order = 1
       THEN LET total == getTotalTokens(st)
            IN IF total > 0 THEN Rat(countNgram, total) ELSE Zero
       ELSE IF countNgram > 0
       THEN LET countContext == getCount(st, context)
            IN IF countContext > 0 THEN Rat(countNgram, countContext) ELSE Zero
       ELSE Zero

RECURSIVE getScore(_, _, _)
getScore(st, candidate, context) ==
    LET order == Len(context) + 1
        ngram == Append(context, candidate)
        countNgram == getCount(st, ngram)
    IN IF order = 1
       THEN LET total == getTotalTokens(st)
            IN IF total > 0 THEN Rat(countNgram, total) ELSE Zero
       ELSE IF countNgram > 0
       THEN LET countContext == getCount(st, context)
            IN IF countContext > 0 THEN Rat(countNgram, countContext) ELSE Zero
       ELSE RatMul(ALPHA, getScore(st, candidate, JSSliceFrom(context, 1)))

\* the context of predict without the removal of a final EOS
predictContextKeepEOS(order, tokens) ==
    LET contextSize == order - 1
        c0 == JSSliceFrom(tokens, 0 - contextSize)
    IN IF Len(c0) = 0 /\ Len(tokens) > 0
       THEN JSSliceFrom(tokens, 0 - (order - 1))
       ELSE c0

\* Steps 1-2 of predict: the context taken from the query's token stream
predictContext(order, tokens) ==
    LET contextSize == order - 1
        c0 == JSSliceFrom(tokens, 0 - contextSize)
        c1 == IF Len(c0) > 0 /\ c0[Len(c0)] = EOS_ID
              THEN SubSeq(c0, 1, Len(c0) - 1) ELSE c0
    IN IF Len(c1) = 0 /\ Len(tokens) > 0
       THEN JSSliceFrom(tokens, 0 - (order - 1))
       ELSE c1

RECURSIVE AddAll(_, _)
AddAll(set, found) ==
    IF found = <<>> THEN set ELSE AddAll(SetAdd(set, Head(found)), Tail(found))

\* Step 3 of predict: the while loop that collects the candidates of the
\* context and of each of its suffixes, in the insertion order of the Set
RECURSIVE collectCandidates(_, _, _)
collectCandidates(st, currentCtx, candidates) ==
    LET c1 == AddAll(candidates, getCandidates(st, currentCtx))
    IN IF Len(currentCtx) = 0 THEN c1
       ELSE collectCandidates(st, Tail(currentCtx), c1)

\* an insertion that puts an element before the elements of equal score
RECURSIVE InsertDescUnstable(_, _)
InsertDescUnstable(sorted, x) ==
    IF sorted = <<>> THEN <<x>>
    ELSE IF RatLeq(sorted[Len(sorted)].score, x.score)
    THEN Append(InsertDescUnstable(SubSeq(sorted, 1, Len(sorted) - 1), x), sorted[Len(sorted)])
    ELSE Append(sorted, x)

\* Array.prototype.sort((a, b) => b.score - a.score): stable, descending
RECURSIVE InsertDesc(_, _)
InsertDesc(sorted, x) ==
    IF sorted = <<>> THEN <<x>>
    ELSE IF RatLess(sorted[Len(sorted)].score, x.score)
    THEN Append(InsertDesc(SubSeq(sorted, 1, Len(sorted) - 1), x), sorted[Len(sorted)])
    ELSE Append(sorted, x)

RECURSIVE SortDesc(_, _)
SortDesc(done, rest) ==
    IF rest = <<>> THEN done ELSE SortDesc(InsertDesc(done, Head(rest)), Tail(rest))

\* predict(inputText, topK): the returned list, the tokenizer after the
\* call, and the context and candidate list it worked with
predict(order, cfg, tok, st, inputText, topK) ==
    LET r == tokenize(cfg, tok, inputText)
        context == predictContext(order, r.tokens)
        candidates == collectCandidates(st, context, <<>>)
        results == [i \in 1..Len(candidates) |->
                      [word |-> getWord(r.tok, candidates[i]),
                       score |-> getScore(st, candidates[i], context)]]
    IN [result |-> JSSlice(SortDesc(<<>>, results), 0, topK),
        tok |-> r.tok,
        tokens |-> r.tokens,
        context |-> context,
        candidates |-> candidates]

\* ------------------------------------------------------------------------
\* Exclusion PPMModel (google.ts)
\* ------------------------------------------------------------------------
\* Probabilities: rationals; a denominator of 0 stands for NaN (0 / 0)
NaN == [num |-> 0, den |-> 0]
IsNaN(x) == x.den = 0
One == [num |-> 1, den |-> 1]
RatDiv(a, b) == IF b = 0 THEN NaN ELSE Rat(a, b)
RatTimes(x, y) == IF IsNaN(x) \/ IsNaN(y) THEN NaN ELSE RatMul(x, y)
RatOver(x, k) == IF IsNaN(x) \/ k = 0 THEN NaN ELSE Rat(x.num, x.den * k)
RatAdd(x, y) ==
    IF IsNaN(x) \/ IsNaN(y) THEN NaN
    ELSE Rat(x.num * y.den + y.num * x.den, x.den * y.den)

\* currentWeight < 1e-9 (false for NaN)
CutoffInverse == 1000000000
BelowCutoff(w) == ~IsNaN(w) /\ (w.den - 1) \div CutoffInverse >= w.num

\* new ContextNode(); keys is the insertion order of the counts Map
NewContextNode == [counts |-> <<>>, keys |-> <<>>, children |-> {}, totalCount |-> 0]

\* addToken that counts a token in totalCount only when it is new to the node
addTokenTotalOnNew(node, token) ==
    [node EXCEPT !.counts = MapSet(node.counts, token, MapGet(node.counts, token, 0) + 1),
                 !.keys = SetAdd(node.keys, token),
                 !.totalCount = IF token \in DOMAIN node.counts
                                THEN node.totalCount ELSE node.totalCount + 1]

addToken(node, token) ==
    [node EXCEPT !.counts = MapSet(node.counts, token, MapGet(node.counts, token, 0) + 1),
                 !.keys = SetAdd(node.keys, token),
                 !.totalCount = node.totalCount + 1]

distinctCount(node) == Cardinality(DOMAIN node.counts)

\* The walk of updateTrie: creates the missing nodes along context
RECURSIVE EnsurePath(_, _, _)
EnsurePath(nodes, context, j) ==
    IF j > Len(context) THEN nodes
    ELSE LET parent == SubSeq(context, 1, j - 1)
             child == SubSeq(context, 1, j)
             word == context[j]
         IN IF word \in nodes[parent].children
            THEN EnsurePath(nodes, context, j + 1)
            ELSE EnsurePath(
                   MapSet(MapSet(nodes, parent,
                                 [nodes[parent] EXCEPT !.children = @ \cup {word}]),
                          child, NewContextNode),
                   context, j + 1)

updateTrie(nodes, context, token) ==
    LET n1 == EnsurePath(nodes, context, 1)
    IN MapSet(n1, context, addToken(n1[context], token))

\* findNode: TRUE when every step of the walk finds the child
RECURSIVE findNode(_, _, _)
findNode(nodes, context, j) ==
    IF j > Len(context) THEN TRUE
    ELSE IF context[j] \notin nodes[SubSeq(context, 1, j - 1)].children THEN FALSE
    ELSE findNode(nodes, context, j + 1)

\* Map.prototype.set on the insertion-ordered results
ResultsGet(results, token) ==
    IF \E i \in 1..Len(results) : results[i].token = token
    THEN (CHOOSE r \in SeqToSet(results) : r.token = token).probability
    ELSE Zero

ResultsSet(results, token, prob) ==
    IF \E i \in 1..Len(results) : results[i].token = token
    THEN [i \in 1..Len(results) |->
            IF results[i].token = token
            THEN [token |-> token, probability |-> prob] ELSE results[i]]
    ELSE Append(results, [token |-> token, probability |-> prob])

RECURSIVE OrderMinusOneLoop(_, _, _, _)
OrderMinusOneLoop(vocab, results, excluded, probPerToken) ==
    IF vocab = <<>> THEN results
    ELSE OrderMinusOneLoop(Tail(vocab),
                           IF Head(vocab) \notin excluded
                           THEN ResultsSet(results, Head(vocab), probPerToken)
                           ELSE results,
                           excluded, probPerToken)

handleOrderMinusOne(vocab, results, excluded, weight) ==
    LET vocabSize == Len(vocab)
        observedSize == Cardinality(excluded)
        unpredictedCount == vocabSize - observedSize
    IN IF unpredictedCount <= 0 THEN [results |-> results, excluded |-> excluded]
       ELSE [results |-> OrderMinusOneLoop(vocab, results, excluded,
                                           RatOver(weight, unpredictedCount)),
             excluded |-> excluded]

\* the for loop over node.counts without the test of the exclusion set
RECURSIVE NodeLoopNoExclusion(_, _, _, _, _, _)
NodeLoopNoExclusion(node, keys, denominator, results, excluded, currentWeight) ==
    IF Len(results) < 0 \/ keys = <<>> THEN [results |-> results, excluded |-> excluded]
    ELSE LET token == Head(keys)
             rawProb == RatDiv(node.counts[token], denominator)
             finalProb == RatTimes(rawProb, currentWeight)
         IN NodeLoopNoExclusion(node, Tail(keys), denominator,
                                ResultsSet(results, token,
                                           RatAdd(ResultsGet(results, token), finalProb)),
                                excluded \cup {token}, currentWeight)

\* the for loop over node.counts of calculateProbabilitiesRecursive.
\* Len(results) is never negative: the first test only reads the results, so
\* that each results.set is evaluated before the next one is entered.
RECURSIVE NodeLoop(_, _, _, _, _, _)
NodeLoop(node, keys, denominator, results, excluded, currentWeight) ==
    IF Len(results) < 0 \/ keys = <<>> THEN [results |-> results, excluded |-> excluded]
    ELSE LET token == Head(keys)
         IN IF token \in excluded
            THEN NodeLoop(node, Tail(keys), denominator, results, excluded, currentWeight)
            ELSE LET rawProb == RatDiv(node.counts[token], denominator)
                     finalProb == RatTimes(rawProb, currentWeight)
                 IN NodeLoop(node, Tail(keys), denominator,
                             ResultsSet(results, token,
                                        RatAdd(ResultsGet(results, token), finalProb)),
                             excluded \cup {token}, currentWeight)

RECURSIVE calculateProbabilitiesRecursive(_, _, _, _, _, _)
calculateProbabilitiesRecursive(nodes, vocab, context, results, excluded, currentWeight) ==
    IF BelowCutoff(currentWeight) THEN [results |-> results, excluded |-> excluded]
    ELSE IF Len(context) = 0 /\ ~findNode(nodes, context, 1)
    THEN handleOrderMinusOne(vocab, results, excluded, currentWeight)
    ELSE IF ~findNode(nodes, context, 1)
    THEN calculateProbabilitiesRecursive(nodes, vocab, JSSliceFrom(context, 1),
                                         results, excluded, currentWeight)
    ELSE LET node == nodes[context]
             total == node.totalCount
             distinct == distinctCount(node)
             denominator == total + distinct
             escapeProb == RatDiv(distinct, denominator)
             r == NodeLoop(node, node.keys, denominator, results, excluded, currentWeight)
         IN IF Len(context) > 0
            THEN calculateProbabilitiesRecursive(nodes, vocab, JSSliceFrom(context, 1),
                                                 r.results, r.excluded,
                                                 RatTimes(currentWeight, escapeProb))
            ELSE handleOrderMinusOne(vocab, r.results, r.excluded,
                                     RatTimes(currentWeight, escapeProb))

\* sort((a, b) => b.probability - a.probability): stable, descending
RECURSIVE InsertDescProb(_, _)
InsertDescProb(sorted, x) ==
    IF sorted = <<>> THEN <<x>>
    ELSE IF RatLess(sorted[Len(sorted)].probability, x.probability)
    THEN Append(InsertDescProb(SubSeq(sorted, 1, Len(sorted) - 1), x), sorted[Len(sorted)])
    ELSE Append(sorted, x)

RECURSIVE SortDescProb(_, _)
SortDescProb(done, rest) ==
    IF rest = <<>> THEN done
    ELSE SortDescProb(InsertDescProb(done, Head(rest)), Tail(rest))

ppmPredict(order, nodes, vocab, history) ==
    LET relevantHistory == JSSliceFrom(history, 0 - order)
        r == calculateProbabilitiesRecursive(nodes, vocab, relevantHistory, <<>>, {}, One)
    IN SortDescProb(<<>>, r.results)

\* train, inner loop: for (order = 0..maxOrder), left when i - order < 0.
\* The root node always exists: the first test only reads the trie, so that
\* each updateTrie is evaluated before the next one is entered.
RECURSIVE ppmTrainAt(_, _, _, _, _)
ppmTrainAt(order, nodes, tokens, i, o) ==
    IF <<>> \notin DOMAIN nodes \/ o > order \/ i - o < 0 THEN nodes
    ELSE ppmTrainAt(order, updateTrie(nodes, JSSlice(tokens, i - o, i), tokens[i + 1]),
                    tokens, i, o + 1)

\* train, outer loop: for (i = 0..len-1)
RECURSIVE ppmTrainLoop(_, _, _, _)
ppmTrainLoop(order, nodes, tokens, i) ==
    IF i >= Len(tokens) THEN nodes
    ELSE ppmTrainLoop(order, ppmTrainAt(order, nodes, tokens, i, 0), tokens, i + 1)

ppmTrain(order, nodes, vocab, tokens) ==
    IF Len(tokens) = 0 THEN [root |-> nodes, vocabulary |-> vocab]
    ELSE [root |-> ppmTrainLoop(order, nodes, tokens, 0),
          vocabulary |-> AddAll(vocab, tokens)]

\* ------------------------------------------------------------------------
\* The model as a state machine
\* ------------------------------------------------------------------------
Tok == [wordToId |-> wordToId, idToWord |-> idToWord]
Store == [counts |-> counts, contextMap |-> contextMap, totalTokens |-> totalTokens]

\* Orders of the model: the factory builds order 3 (trigrams)
Orders == {1, 2, 3, 4}

ModelTexts == SeqsUpTo(ModelChars, MaxInput - used - 1)
\* the text of the previous predict call can always be given again
QueryTexts == ModelTexts \cup (IF last.op = "predict" THEN {last.text} ELSE {})
TokTexts == SeqsUpTo(AllChars, MaxTokInput - used - 1)

\* topK as passed by the caller: any number (the default of an omitted topK
\* is 5)
DefaultTopK == 5
TopKs == {-1, 1, DefaultTopK}

InitTokenizer ==
    /\ wordToId = NewTokenizer.wordToId
    /\ idToWord = NewTokenizer.idToWord

\* new PPMModel({order})
InitPPMModel(order) ==
    /\ maxOrder = order
    /\ root = MapSet(<<>>, <<>>, NewContextNode)
    /\ vocabulary = <<>>
    /\ ppmLast = [op |-> "none"]

\* new PPM(order) of ppm.ts: throws when order <= 0
PPMThrows(order) == order <= 0

\* the default order of new PPM()
DefaultPPMOrder == 4

InitPPMClass(order) ==
    /\ ~PPMThrows(order)
    /\ ppmOrder = order

InitStore ==
    /\ counts = EmptyStore.counts
    /\ contextMap = EmptyStore.contextMap
    /\ totalTokens = EmptyStore.totalTokens

\* new StupidBackoffModel(n, new AdvancedTokenizer(), new NGramStore())
Init ==
    /\ n \in Orders
    /\ config = DefaultConfig
    /\ InitTokenizer
    /\ InitStore
    /\ last = [op |-> "none"]
    /\ nTrain = 0
    /\ tokOut = <<>>
    /\ used = 0
    /\ InitPPMModel(3)
    /\ InitPPMClass(DefaultPPMOrder)

\* model.train(text)
Train(text) ==
    /\ used + Cost(text) <= MaxInput
    /\ LET r == tokenize(config, Tok, text)
           st == TrainLoop(n, Store, r.tokens, 0)
       IN /\ wordToId' = r.tok.wordToId
          /\ idToWord' = r.tok.idToWord
          /\ counts' = st.counts
          /\ contextMap' = st.contextMap
          /\ totalTokens' = st.totalTokens
          /\ last' = [op |-> "train", text |-> text, tokens |-> r.tokens,
                      repeat |-> last.op = "train" /\ last.text = text]
    /\ nTrain' = nTrain + 1
    /\ used' = used + Cost(text)
    /\ UNCHANGED <<n, config, tokOut, ppmVars, ppmOrder>>

\* model.predict(text, topK); the call may be made a second time with the
\* same arguments right after the first
Predict(text, topK) ==
    LET again == last.op = "predict" /\ last.calls = 1
                   /\ last.text = text /\ last.topK = topK
    IN /\ used + Cost(text) <= MaxInput \/ again
       /\ LET r == predict(n, config, Tok, Store, text, topK)
          IN /\ wordToId' = r.tok.wordToId
             /\ idToWord' = r.tok.idToWord
             /\ last' = [op |-> "predict", text |-> text, topK |-> topK,
                         result |-> r.result, tokens |-> r.tokens,
                         context |-> r.context, candidates |-> r.candidates,
                         newWords |-> getVocabSize(r.tok) - getVocabSize(Tok),
                         calls |-> IF again THEN 2 ELSE 1,
                         previous |-> IF again THEN last.result ELSE <<>>,
                         previousNewWords |-> IF again THEN last.newWords ELSE 0]
       /\ used' = IF again THEN used ELSE used + Cost(text)
       /\ UNCHANGED <<n, config, storeVars, nTrain, tokOut, ppmVars, ppmOrder>>

Next ==
    \/ \E text \in ModelTexts : Train(text)
    \/ \E text \in QueryTexts, topK \in TopKs : Predict(text, topK)

Spec == Init /\ [][Next]_vars

\* ------------------------------------------------------------------------
\* The tokenizer on its own: new AdvancedTokenizer(config), then tokenize
\* ------------------------------------------------------------------------
InitTok ==
    /\ config \in Configs
    /\ InitTokenizer
    /\ InitStore
    /\ n = 3
    /\ last = [op |-> "none"]
    /\ nTrain = 0
    /\ tokOut = <<>>
    /\ used = 0
    /\ InitPPMModel(3)
    /\ InitPPMClass(DefaultPPMOrder)

Tokenize(text) ==
    /\ used + Cost(text) <= MaxTokInput
    /\ LET r == tokenize(config, Tok, text)
       IN /\ wordToId' = r.tok.wordToId
          /\ idToWord' = r.tok.idToWord
          /\ tokOut' = r.tokens
    /\ used' = used + Cost(text)
    /\ UNCHANGED <<config, sbmVars, ppmVars, ppmOrder>>

NextTok == \E text \in TokTexts : Tokenize(text)

SpecTok == InitTok /\ [][NextTok]_vars

\* ------------------------------------------------------------------------
\* The exclusion PPMModel on its own
\* ------------------------------------------------------------------------
PPMWords == {"the", "cat", "sat"}
PPMOrders == {0, 1, 2, 3}
PPMTokens == SeqsUpTo(PPMWords, MaxPPMInput - used - 1)
PPMHistories == SeqsUpTo(PPMWords, MaxHistLen)

InitPPM ==
    /\ \E order \in PPMOrders : InitPPMModel(order)
    /\ config = DefaultConfig
    /\ InitTokenizer
    /\ InitStore
    /\ n = 3
    /\ last = [op |-> "none"]
    /\ nTrain = 0
    /\ tokOut = <<>>
    /\ used = 0
    /\ InitPPMClass(DefaultPPMOrder)

PPMTrain(tokens) ==
    /\ used + Cost(tokens) <= MaxPPMInput
    /\ LET r == ppmTrain(maxOrder, root, vocabulary, tokens)
       IN /\ root' = r.root
          /\ vocabulary' = r.vocabulary
    /\ ppmLast' = [op |-> "train", tokens |-> tokens]
    /\ used' = used + Cost(tokens)
    /\ UNCHANGED <<maxOrder, config, vocabVars, sbmVars, tokOut, ppmOrder>>

PPMPredict(history) ==
    /\ ppmLast' = [op |-> "predict", history |-> history,
                   result |-> ppmPredict(maxOrder, root, vocabulary, history)]
    /\ UNCHANGED <<maxOrder, root, vocabulary, used, config, vocabVars, sbmVars, tokOut, ppmOrder>>

NextPPM ==
    \/ \E tokens \in PPMTokens : PPMTrain(tokens)
    \/ \E history \in PPMHistories : PPMPredict(history)

SpecPPM == InitPPM /\ [][NextPPM]_vars

\* ------------------------------------------------------------------------
\* Construction with any order: the three constructors, then the calls
\* ------------------------------------------------------------------------
MaxNewInput == 3

NewOrders == {-1, 0, 1}
NewTexts == SeqsUpTo(ModelChars, MaxNewInput - used - 1)
NewTokens == SeqsUpTo(PPMWords, MaxNewInput - used - 1)
NewHistories == SeqsUpTo(PPMWords, MaxNewInput - 2)

\* new StupidBackoffModel(order, ...), new PPMModel({order}), new PPM(order)
InitNew ==
    /\ n \in NewOrders
    /\ \E order \in NewOrders : InitPPMModel(order)
    /\ \E order \in NewOrders : InitPPMClass(order)
    /\ config = DefaultConfig
    /\ InitTokenizer
    /\ InitStore
    /\ last = [op |-> "none"]
    /\ nTrain = 0
    /\ tokOut = <<>>
    /\ used = 0

NextNew ==
    \/ \E text \in NewTexts : Train(text)
    \/ \E text \in NewTexts, topK \in TopKs : Predict(text, topK)
    \/ \E tokens \in NewTokens : PPMTrain(tokens)
    \/ \E history \in NewHistories : PPMPredict(history)

SpecNew == InitNew /\ [][NextNew]_vars

\* ------------------------------------------------------------------------
\* Training only: both models, any sequence of train calls
\* ------------------------------------------------------------------------
InitTrain ==
    /\ n \in Orders
    /\ \E order \in PPMOrders : InitPPMModel(order)
    /\ InitPPMClass(DefaultPPMOrder)
    /\ config = DefaultConfig
    /\ InitTokenizer
    /\ InitStore
    /\ last = [op |-> "none"]
    /\ nTrain = 0
    /\ tokOut = <<>>
    /\ used = 0

NextTrain ==
    \/ \E text \in ModelTexts : Train(text)
    \/ \E tokens \in PPMTokens : PPMTrain(tokens)

SpecTrain == InitTrain /\ [][NextTrain]_vars

\* ------------------------------------------------------------------------
\* Properties
\* ------------------------------------------------------------------------
AllIds == 0..(getVocabSize(Tok) - 1)

\* the id sequence that toKey wrote as a key
FromKey(key) == [i \in 1..((Len(key) + 1) \div 2) |-> key[2 * i - 1]]

NGramsOf(c) == {FromKey(k) : k \in DOMAIN c}

StoreAfter == [counts |-> counts', contextMap |-> contextMap', totalTokens |-> totalTokens']

Suffixes(s) == {SubSeq(s, i, Len(s)) : i \in 1..(Len(s) + 1)}

\* C1: Additivity - when a fresh model is trained with a text and then
\* trained a second time with the same text, the second call takes every
\* n-gram count to exactly twice its value after the first call.
Additivity ==
    [][(nTrain = 1 /\ nTrain' = 2 /\ last'.op = "train" /\ last'.repeat)
        => \A g \in NGramsOf(counts) \cup NGramsOf(counts') :
              getCount(StoreAfter, g) = 2 * getCount(Store, g)]_vars

AdditivityWitness ==
    /\ nTrain = 2 /\ last.op = "train" /\ last.repeat
    /\ \E g \in NGramsOf(counts) : Len(g) >= 2 /\ getCount(Store, g) >= 2

RECURSIVE SumProb(_)
SumProb(results) ==
    IF results = <<>> THEN Zero
    ELSE RatAdd(Head(results).probability, SumProb(Tail(results)))

\* C2: Exclusion-sum bound - after a non-empty training, the probabilities
\* returned by predict(history) sum to 1.
ExclusionSumIsOne ==
    (ppmLast.op = "predict" /\ vocabulary # <<>>) => SumProb(ppmLast.result) = One

\* C3: Candidate completeness - for every non-empty context that is the
\* prefix of a stored n-gram (or a key of the candidate index), the
\* candidates of the context are exactly the tokens t whose n-gram
\* context + t has a positive count.
InsertedContexts ==
    ({JSSlice(g, 0, -1) : g \in NGramsOf(counts)} \cup NGramsOf(contextMap)) \ {<<>>}

CandidateCompleteness ==
    \A C \in InsertedContexts :
        SeqToSet(getCandidates(Store, C))
          = {t \in AllIds : getCount(Store, Append(C, t)) > 0}

CandidateCompletenessWitness ==
    /\ nTrain >= 1
    /\ \E C \in InsertedContexts : Len(getCandidates(Store, C)) >= 2
    /\ \E C \in InsertedContexts :
          \E t \in SeqToSet(getCandidates(Store, C)) : getCount(Store, Append(C, t)) >= 2

\* C4: the candidates of the empty context are exactly the tokens with a
\* positive unigram count (increment of a 1-gram registers its token under
\* the empty context).
EmptyContextCandidates ==
    SeqToSet(getCandidates(Store, <<>>))
      = {t \in AllIds : getCount(Store, <<t>>) > 0}

\* C5: Coverage - once a word has been trained, a predict call with
\* topK >= 1 on a query with a non-empty token stream returns a non-empty
\* list.
Coverage ==
    (last.op = "predict" /\ totalTokens > 0 /\ last.tokens # <<>> /\ last.topK >= 1)
        => last.result # <<>>

\* C6: Tokenizer boundary closure - the stream returned by tokenize never
\* ends with BOS_ID, and every EOS_ID that is not its last element is
\* immediately followed by BOS_ID.
BoundaryClosure ==
    /\ tokOut # <<>> => tokOut[Len(tokOut)] # BOS_ID
    /\ \A i \in 1..(Len(tokOut) - 1) : tokOut[i] = EOS_ID => tokOut[i + 1] = BOS_ID

BoundaryClosureWitness ==
    /\ \E i \in 1..(Len(tokOut) - 1) : tokOut[i] = EOS_ID
    /\ tokOut[Len(tokOut)] = EOS_ID

\* C7: Determinism - a second predict call with the same text and topK,
\* made right after the first (no train call in between), returns the same
\* ordered list of {word, score}, also when the first call registered
\* query words that were not in the vocabulary.
Determinism ==
    (last.op = "predict" /\ last.calls = 2) => last.result = last.previous

DeterminismWitness ==
    /\ last.op = "predict" /\ last.calls = 2
    /\ last.previousNewWords > 0
    /\ last.result # <<>>

\* Position of the candidate behind a returned word in the candidate list
CandidatePos(word) ==
    CHOOSE p \in 1..Len(last.candidates) : last.candidates[p] = getId(Tok, word)

\* C8 as stated: the returned list is in non-increasing score order and two
\* entries of equal score are in ascending TokenID order.
RankingByTokenId ==
    last.op = "predict" =>
        \A i, j \in 1..Len(last.result) : i < j =>
            /\ RatLeq(last.result[j].score, last.result[i].score)
            /\ last.result[i].score = last.result[j].score
                 => getId(Tok, last.result[i].word) < getId(Tok, last.result[j].word)

\* C8 amended: the returned list is in non-increasing score order and two
\* entries of equal score are in the order in which predict collected
\* their candidates (longest context first, first-observed order within a
\* context).
RankingStable ==
    last.op = "predict" =>
        \A i, j \in 1..Len(last.result) : i < j =>
            /\ RatLeq(last.result[j].score, last.result[i].score)
            /\ last.result[i].score = last.result[j].score
                 => CandidatePos(last.result[i].word) < CandidatePos(last.result[j].word)

RankingStableWitness ==
    /\ last.op = "predict"
    /\ \E i, j \in 1..Len(last.result) :
          /\ i < j
          /\ last.result[i].score = last.result[j].score
          /\ getId(Tok, last.result[i].word) > getId(Tok, last.result[j].word)

\* C9: Prediction is read-only - a predict call changes neither the n-gram
\* store nor the vocabulary.
PredictReadOnly ==
    [][last'.op = "predict" => UNCHANGED <<storeVars, vocabVars>>]_vars

\* C10: Multiplicative Backoff scoring - the score of candidate c in
\* context ctx is (0.4)^d * count(s + c) / count(s), where s is the longest
\* suffix of ctx with count(s + c) > 0 and d the number of tokens dropped
\* from ctx to reach s; when no non-empty suffix qualifies, s is empty and
\* the ratio is count([c]) / totalTokens (0 when no token was observed).
BackoffDepth(st, c, ctx) ==
    CHOOSE d \in 0..Len(ctx) :
        /\ d = Len(ctx) \/ getCount(st, Append(JSSliceFrom(ctx, d), c)) > 0
        /\ \A e \in 0..(d - 1) : getCount(st, Append(JSSliceFrom(ctx, e), c)) = 0

ExpectedScore(st, c, ctx) ==
    LET d == BackoffDepth(st, c, ctx)
        s == JSSliceFrom(ctx, d)
        ratio == IF s = <<>>
                 THEN IF st.totalTokens > 0
                      THEN Rat(getCount(st, <<c>>), st.totalTokens) ELSE Zero
                 ELSE Rat(getCount(st, Append(s, c)), getCount(st, s))
    IN RatMul(Rat(2 ^ d, 5 ^ d), ratio)

BackoffScore ==
    last.op = "predict" =>
        /\ \A s \in Suffixes(last.context) : \A c \in AllIds :
              getScore(Store, c, s) = ExpectedScore(Store, c, s)
        /\ \A i \in 1..Len(last.result) :
              last.result[i].score
                = ExpectedScore(Store, getId(Tok, last.result[i].word), last.context)

BackoffScoreWitness ==
    /\ last.op = "predict"
    /\ \E i \in 1..Len(last.result) :
          /\ BackoffDepth(Store, getId(Tok, last.result[i].word), last.context) >= 1
          /\ RatLess(Zero, last.result[i].score)
    /\ \E i \in 1..Len(last.result) :
          BackoffDepth(Store, getId(Tok, last.result[i].word), last.context) = 0
\* C11: no model is ever trained or queried with an order <= 0, because no
\* StupidBackoffModel, PPMModel or PPM with such an order can be constructed
NonPositiveOrderRejected ==
    /\ (last.op # "none" => n > 0)
    /\ (ppmLast.op # "none" => maxOrder > 0)
    /\ ppmOrder > 0

\* the PPMModel of order 2 after new PPMModel({order: 2}) and
\* train(['the', 'cat', 'sat'])
ScenarioModel ==
    ppmTrain(2, MapSet(<<>>, <<>>, NewContextNode), <<>>, <<"the", "cat", "sat">>)

InScenario ==
    /\ maxOrder = 2
    /\ root = ScenarioModel.root
    /\ vocabulary = ScenarioModel.vocabulary
    /\ ppmLast.op = "predict"
    /\ ppmLast.history = <<"the">>

\* C12: on the PPMModel of order 2 trained on [the, cat, sat], predict([the])
\* returns cat first, with probability 1.0
ExclusionScenario ==
    InScenario =>
        /\ Len(ppmLast.result) > 0
        /\ ppmLast.result[1] = [token |-> "cat", probability |-> One]

\* C13: predict on a text with an empty token stream returns the empty list
\* whatever the store holds, and a model whose train calls stored nothing
\* returns the empty list for every text
EmptyResults ==
    last.op = "predict" =>
        /\ (last.tokens = <<>> => last.result = <<>>)
        /\ (nTrain > 0 /\ Store = EmptyStore => last.result = <<>>)

EmptyResultsWitness ==
    /\ last.op = "predict"
    /\ last.tokens = <<>>
    /\ last.text # <<>>
    /\ Store # EmptyStore
    /\ last.result = <<>>

\* C14: predict(text, topK) returns at most topK elements, for every integer
\* topK (no element when topK is not positive)
TopKBound ==
    last.op = "predict" => Len(last.result) <= Max(last.topK, 0)

TokAfter == [wordToId |-> wordToId', idToWord |-> idToWord']

\* position of the first occurrence of id in a token stream
FirstPos(stream, id) ==
    CHOOSE i \in 1..Len(stream) :
        stream[i] = id /\ \A j \in 1..(i - 1) : stream[j] # id

\* sentinels on ids 0, 1, 2 and the two maps inverse of each other
VocabularyConsistent ==
    /\ UNK_ID = 0 /\ BOS_ID = 1 /\ EOS_ID = 2
    /\ getWord(Tok, 0) = UNK /\ getWord(Tok, 1) = BOS /\ getWord(Tok, 2) = EOS
    /\ DOMAIN wordToId = SeqToSet(idToWord)
    /\ \A w \in DOMAIN wordToId : getWord(Tok, getId(Tok, w)) = w
    /\ \A i \in AllIds : getId(Tok, getWord(Tok, i)) = i

\* a tokenize call keeps every binding and gives the words it sees for the
\* first time the next ids, in the order in which they occur in the text
VocabularyGrows ==
    LET old == getVocabSize(Tok)
        new == getVocabSize(TokAfter)
        newIds == old..(new - 1)
    IN /\ old <= new
       /\ \A i \in AllIds : getWord(TokAfter, i) = getWord(Tok, i)
       /\ \A w \in DOMAIN wordToId : getId(TokAfter, w) = getId(Tok, w)
       /\ \A i \in newIds : \E p \in 1..Len(tokOut') : tokOut'[p] = i
       /\ \A i, j \in newIds : i < j => FirstPos(tokOut', i) < FirstPos(tokOut', j)

\* C15: ids 0, 1, 2 are the sentinels, word->id and id->word are inverse of
\* each other, ids are given consecutively in first-seen order and a binding
\* is never changed or removed
VocabularyInvariant == [](VocabularyConsistent) /\ [][VocabularyGrows]_vars

VocabularyInvariantWitness ==
    /\ getVocabSize(Tok) = 5
    /\ Len(tokOut) = 5
    /\ tokOut[2] = 3 /\ tokOut[3] = 4 /\ tokOut[4] = 3

\* the maximal runs of digits of a text
DigitRunsOf(s) ==
    {SubSeq(s, i, j) : <<i, j>> \in
        {r \in (1..Len(s)) \X (1..Len(s)) :
            /\ r[1] <= r[2]
            /\ \A k \in r[1]..r[2] : s[k] \in Digits
            /\ (r[1] = 1 \/ s[r[1] - 1] \notin Digits)
            /\ (r[2] = Len(s) \/ s[r[2] + 1] \notin Digits)}}

Emitted(tok, stream, word) ==
    /\ word \in DOMAIN tok.wordToId
    /\ \E p \in 1..Len(stream) : stream[p] = tok.wordToId[word]

\* C16: with minWordLength = m, tokenize emits no letter word shorter than
\* m, and emits (and registers) every run of digits of the text, also those
\* shorter than m
MinLengthExemptsDigits ==
    [][\A text \in TokTexts : Tokenize(text) =>
          /\ \A p \in 1..Len(tokOut') :
                LET word == getWord(TokAfter, tokOut'[p])
                IN (tokOut'[p] \notin {BOS_ID, EOS_ID} /\ word[1] \in Letters)
                       => Len(word) >= config.minWordLength
          /\ \A run \in DigitRunsOf(preprocessText(config, text)) :
                Emitted(TokAfter, tokOut', run)]_vars

\* escapeProb = distinct / denominator as computed for a node by
\* calculateProbabilitiesRecursive
escapeProbOf(node) ==
    RatDiv(distinctCount(node), node.totalCount + distinctCount(node))

\* C17: a ratio with denominator zero evaluates to 0, never to NaN: predict
\* returns no NaN probability, and the escape ratio of every node that the
\* recursion finds for the history is 0 when the node's total + distinct is 0
DivisionGuard ==
    ppmLast.op = "predict" =>
        /\ \A i \in 1..Len(ppmLast.result) : ~IsNaN(ppmLast.result[i].probability)
        /\ \A ctx \in Suffixes(JSSliceFrom(ppmLast.history, 0 - maxOrder)) :
              findNode(root, ctx, 1) =>
                  LET node == root[ctx]
                  IN node.totalCount + distinctCount(node) = 0
                         => escapeProbOf(node) = Zero

\* C18: for every order n >= 1 the context that predict uses for the
\* candidates and passes to getScore has at most n - 1 tokens
ContextBound ==
    last.op = "predict" => Len(last.context) <= n - 1

\* C19: for every order n >= 1 the context that predict uses for the
\* candidates and the scores does not end with EOS_ID
ContextWithoutEOS ==
    (last.op = "predict" /\ Len(last.context) > 0)
        => last.context[Len(last.context)] # EOS_ID

\* number of positions at which g occurs in a token stream
Occurrences(g, stream) ==
    Cardinality({i \in 1..(Len(stream) - Len(g) + 1) :
                    SubSeq(stream, i, i + Len(g) - 1) = g})

\* the non-empty contiguous subsequences of a token stream
WindowsOf(stream) ==
    {SubSeq(stream, i, j) : <<i, j>> \in
        {r \in (1..Len(stream)) \X (1..Len(stream)) : r[1] <= r[2]}}

\* a fresh store is empty and holds no n-gram longer than n
CountsWithinOrder ==
    /\ (nTrain = 0 => Store = EmptyStore)
    /\ \A g \in NGramsOf(counts) : 1 <= Len(g) /\ Len(g) <= n

\* a train call adds to the count of every g with |g| <= n its number of
\* occurrences in the token stream of the call; no other call changes a count
CountsFollowStream ==
    LET trained == nTrain' = nTrain + 1
        stream == IF trained THEN last'.tokens ELSE <<>>
    IN \A g \in NGramsOf(counts) \cup NGramsOf(counts') \cup WindowsOf(stream) :
          getCount(StoreAfter, g) =
              getCount(Store, g) + (IF Len(g) <= n THEN Occurrences(g, stream) ELSE 0)

\* C20: after any sequence of train calls on a fresh model of order n,
\* getCount(g) is the number of occurrences of g in the token streams of the
\* calls (each stream on its own) when 1 <= |g| <= n, and 0 when |g| > n
SlidingWindowExact == [](CountsWithinOrder) /\ [][CountsFollowStream]_vars

SlidingWindowExactWitness ==
    /\ nTrain = 2
    /\ n >= 2
    /\ \E g \in NGramsOf(counts) : Len(g) = n /\ getCount(Store, g) = 2
    /\ \E g \in NGramsOf(counts) : Len(g) = 1 /\ getCount(Store, g) = 3

\* The contexts that predict goes through for the last history, longest
\* first: level k is the history without its first k - 1 tokens
RelevantHistory == JSSliceFrom(ppmLast.history, 0 - maxOrder)
NLevels == Len(RelevantHistory) + 1
Level(k) == SubSeq(RelevantHistory, k, Len(RelevantHistory))
Found(k) == findNode(root, Level(k), 1)

\* the weight that reaches level k: the product of the escape ratios of the
\* nodes found above it
RECURSIVE WeightAt(_)
WeightAt(k) ==
    IF k = 1 THEN One
    ELSE IF Found(k - 1)
    THEN RatTimes(WeightAt(k - 1), escapeProbOf(root[Level(k - 1)]))
    ELSE WeightAt(k - 1)

\* level k is reached (no weight below the cutoff so far) and has a node
Active(k) == Found(k) /\ \A j \in 1..k : ~BelowCutoff(WeightAt(j))

ScoredAt(token) ==
    {k \in 1..NLevels : Active(k) /\ token \in DOMAIN root[Level(k)].counts}

Observed == {token \in SeqToSet(vocabulary) : ScoredAt(token) # {}}

OrderMinusOneReached == \A j \in 1..NLevels : ~BelowCutoff(WeightAt(j))

\* the mass of a token: that of the longest context that observed it, or
\* an equal share of the last escape weight at order -1
ExpectedProbability(token) ==
    IF ScoredAt(token) # {}
    THEN LET k == CHOOSE x \in ScoredAt(token) : \A y \in ScoredAt(token) : x <= y
             node == root[Level(k)]
         IN RatTimes(RatDiv(node.counts[token], node.totalCount + distinctCount(node)),
                     WeightAt(k))
    ELSE RatOver(WeightAt(NLevels + 1), Len(vocabulary) - Cardinality(Observed))

\* C21: every token of the result got its mass at exactly one order, the
\* longest suffix of the history whose node observed it (or order -1), and
\* its entry was written once
ExclusionPrinciple ==
    ppmLast.op = "predict" =>
        LET res == ppmLast.result
        IN /\ \A i, j \in 1..Len(res) : i # j => res[i].token # res[j].token
           /\ {res[i].token : i \in 1..Len(res)} =
                 Observed \cup (IF OrderMinusOneReached THEN SeqToSet(vocabulary) ELSE {})
           /\ \A i \in 1..Len(res) :
                 res[i].probability = ExpectedProbability(res[i].token)

ExclusionPrincipleWitness ==
    /\ ppmLast.op = "predict"
    /\ Len(RelevantHistory) >= 1
    /\ \E i \in 1..Len(ppmLast.result) :
          Cardinality(ScoredAt(ppmLast.result[i].token)) >= 2
    /\ \E i \in 1..Len(ppmLast.result) :
          ScoredAt(ppmLast.result[i].token) = {NLevels}

\* sum of the values of a map over a set of its keys
RECURSIVE SumOver(_, _)
SumOver(f, keys) ==
    IF keys = {} THEN 0
    ELSE LET k == CHOOSE x \in keys : TRUE
         IN f[k] + SumOver(f, keys \ {k})

UnigramKeys == {k \in DOMAIN counts : Len(k) = 1}

\* C22: the totalCount of every ContextNode is the sum of its counts, and
\* getTotalTokens() is the sum of the unigram counts of the store
TotalEqualsSum ==
    /\ \A path \in DOMAIN root :
          root[path].totalCount = SumOver(root[path].counts, DOMAIN root[path].counts)
    /\ getTotalTokens(Store) = SumOver(counts, UnigramKeys)

TotalEqualsSumWitness ==
    /\ getTotalTokens(Store) >= 3
    /\ Cardinality(UnigramKeys) >= 3
    /\ \E path \in DOMAIN root : path # <<>> /\ root[path].totalCount >= 1
    /\ \E token \in DOMAIN root[<<>>].counts : root[<<>>].counts[token] >= 2

\* C23: the count of a stored n-gram never exceeds the count of the n-gram
\* without its last token, and every suggestion that predict returns has a
\* score s with 0 < s <= 1
ScoreRange ==
    /\ \A g \in NGramsOf(counts) :
          Len(g) >= 2 => getCount(Store, JSSlice(g, 0, -1)) >= getCount(Store, g)
    /\ last.op = "predict" =>
          \A i \in 1..Len(last.result) :
              /\ RatLess(Zero, last.result[i].score)
              /\ RatLeq(last.result[i].score, One)

ScoreRangeWitness ==
    /\ last.op = "predict"
    /\ \E i \in 1..Len(last.result) : last.result[i].score = One
    /\ \E i \in 1..Len(last.result) : RatLess(last.result[i].score, ALPHA)
    /\ \E g \in NGramsOf(counts) :
          Len(g) >= 2 /\ getCount(Store, JSSlice(g, 0, -1)) > getCount(Store, g)

\* the store without what the n-grams of length n put into it: their counts
\* and the candidates of the contexts of length n - 1
StoreBelowOrder ==
    LET keptCounts == {k \in DOMAIN counts : Len(FromKey(k)) < n}
        keptContexts == {k \in DOMAIN contextMap : Len(FromKey(k)) < n - 1}
    IN [counts |-> [k \in keptCounts |-> counts[k]],
        contextMap |-> [k \in keptContexts |-> contextMap[k]],
        totalTokens |-> totalTokens]

TokenStreamGrammar ==
    tokOut # <<>> =>
        /\ tokOut[1] = BOS_ID
        /\ tokOut[Len(tokOut)] = EOS_ID
        /\ \A i \in 2..Len(tokOut) :
              tokOut[i] = BOS_ID <=> tokOut[i - 1] = EOS_ID
        /\ \A i \in 1..(Len(tokOut) - 1) :
              tokOut[i] = BOS_ID => tokOut[i + 1] # EOS_ID
        /\ \A i \in 1..Len(tokOut) : tokOut[i] # UNK_ID

TokenStreamGrammarWitness ==
    /\ Len(tokOut) >= 6
    /\ \E i \in 2..Len(tokOut) : tokOut[i] = BOS_ID

====
